---- MODULE Spec2Model ----
(***************************************************************************)
(* Energy-aware link power-state controller of a 5G backhaul network.      *)
(*                                                                         *)
(* The Ryu controller (ryu_controller.py) builds a fixed 39-link map and   *)
(* serves it on /topology.  The Energy Manager (energy_manager.py) fetches *)
(* the map once, then runs one control cycle per simulated hour: fetch a   *)
(* forecast, overwrite link utilizations, wake or sleep every link in map  *)
(* order, record the energy metrics, export them every sixth hour.         *)
(*                                                                         *)
(* Conventions of the model                                                *)
(*   - a link identifier 'link_<suffix>' is the sequence of decimal digits *)
(*     of its suffix: 'link_30' is <<3,0>> and 'link_030' is <<0,3,0>>;    *)
(*     formatting (LinkName) and parsing (ParseInt) are computed;          *)
(*   - a utilization ratio is an integer number of hundredths (0.10 = 10); *)
(*   - an OrderedDict is a sequence of [id, edge] records in insertion     *)
(*     order; a plain dict keyed by the same insertions is a function and  *)
(*     its key order is the order of that sequence.                        *)
(***************************************************************************)
EXTENDS Integers, Sequences, FiniteSets, TLC

VARIABLES
    pc,                  \* position of run_simulation
    link_index_to_edge,  \* EnergyManager.link_index_to_edge
    link_states,         \* EnergyManager.link_states
    hour,                \* local 'hour' of run_simulation
    idx,                 \* position of the for loop of _link_management (1-based)
    predictions,         \* local 'predictions' of run_simulation
    fetch,               \* outcome of this hour's forecast request
    events,              \* WOKE/SLEPT log lines of the current _link_management run
    metrics,             \* EnergyManager.metrics
    csv_file,            \* lines of energy_metrics.csv
    topo_fetch,          \* outcome of the latest topology request
    retry_delay,         \* seconds slept by the latest pass of the topology loop
    export_log,          \* one log line per call of export_metrics, oldest first
    predictor,           \* the MockLSTMPredictor of ml_predictor_service.py
    sent,                \* the answers of its get_predictions, oldest first
    datapaths,           \* BasicSwitchController.datapaths
    state_changes,       \* the EventOFPStateChange events it has handled, oldest first
    controller_log       \* the lines its logger has written, oldest first

vars == <<pc, link_index_to_edge, link_states, hour, idx, predictions, fetch,
          events, metrics, csv_file, topo_fetch, retry_delay, export_log,
          predictor, sent, datapaths, state_changes, controller_log>>

\* the state of the Energy Manager process
manager_vars == <<pc, link_index_to_edge, link_states, hour, idx, predictions,
                  fetch, events, metrics, csv_file, topo_fetch, retry_delay,
                  export_log>>

----------------------------------------------------------------------------
(* Bounds of the model *)

\* number of simulated hours the loop of run_simulation is followed for
MaxHour == 3

\* largest number of entries in one forecast body
MaxEntries == 2

\* number of simulated hours the process is followed for from start to exit
MaxTick == 13

\* largest number of lines a failed export leaves in the file
MaxPartial == 1

\* number of hours with a forecast before the forecast service goes away
MaxForecastHour == 2

\* number of hours the loop is followed for after that
QuietHours == 2

\* number of hours followed with forecasts whose entries may lack the ratio
MaxResetHour == 3

\* largest number of rows of the dataset of the forecast service
MaxRecords == 3

\* number of requests the forecast service is followed for
MaxCalls == 4

\* number of state-change events the basic controller is followed for
MaxEvents == 4

----------------------------------------------------------------------------
(* Program constants *)

sleep_threshold == 10

cost_active == 100

cost_sleeping == 10

export_period == 6

\* time.sleep(5) of get_topology_from_ryu, in seconds
retry_sleep == 5

----------------------------------------------------------------------------
(* Link identifiers *)

RECURSIVE Digits(_)
Digits(n) == IF n < 10 THEN <<n>> ELSE Append(Digits(n \div 10), n % 10)

\* f'link_{n}'
LinkName(n) == Digits(n)

\* int(link_id.split('_')[1]) : leading zeros are accepted by int()
RECURSIVE ParseInt(_)
ParseInt(ds) ==
    IF Len(ds) = 0 THEN 0
    ELSE 10 * ParseInt(SubSeq(ds, 1, Len(ds) - 1)) + ds[Len(ds)]

\* f'00:00:00:00:{a:02x}:{b:02x}' : the address as a number, two hex digits
\* (one byte) per field
Mac(a, b) == a * 256 + b

----------------------------------------------------------------------------
(* ryu_controller.py : the map built at startup and the /topology endpoint *)

host_links ==
    << <<1, 4, 1, 1>>,   <<2, 5, 1, 1>>,   <<3, 4, 2, 2>>,   <<4, 6, 1, 2>>,
       <<5, 5, 2, 3>>,   <<6, 7, 1, 3>>,   <<7, 6, 2, 4>>,   <<8, 8, 1, 4>>,
       <<9, 7, 2, 5>>,   <<10, 9, 1, 5>>,  <<11, 6, 3, 6>>,  <<12, 8, 2, 6>>,
       <<13, 9, 2, 7>>,  <<14, 5, 3, 7>>,  <<15, 4, 3, 8>>,  <<16, 6, 4, 8>>,
       <<17, 5, 4, 9>>,  <<18, 7, 3, 9>>,  <<19, 6, 5, 10>>, <<20, 8, 3, 10>>,
       <<21, 7, 4, 11>>, <<22, 9, 3, 11>>, <<23, 8, 4, 12>>, <<24, 9, 4, 12>> >>

core_links ==
    << <<25, 1, 1, 2, 1>>, <<26, 1, 2, 3, 1>>, <<27, 2, 2, 3, 2>> >>

core_agg_links ==
    << <<28, 1, 3, 4, 3>>, <<29, 2, 3, 4, 4>>, <<30, 1, 4, 5, 3>>, <<31, 3, 3, 5, 4>>,
       <<32, 2, 4, 6, 5>>, <<33, 3, 4, 6, 6>>, <<34, 1, 5, 7, 4>>, <<35, 2, 5, 7, 5>>,
       <<36, 1, 6, 8, 5>>, <<37, 3, 5, 8, 6>>, <<38, 2, 6, 9, 6>>, <<39, 3, 6, 9, 7>> >>

HostEdge(h) ==
    [id   |-> LinkName(h[1]),
     edge |-> <<h[2], h[3], Mac(h[2], h[3]), -h[4], 1, Mac(0, h[4])>>]

SwitchEdge(s) ==
    [id   |-> LinkName(s[1]),
     edge |-> <<s[2], s[3], Mac(s[2], s[3]), s[4], s[5], Mac(s[4], s[5])>>]

\* EnergyAwareController._build_topology : host links first, then core and
\* core-aggregation links, each in list order
BuildTopology ==
    [i \in 1..Len(host_links) |-> HostEdge(host_links[i])]
    \o [i \in 1..Len(core_links \o core_agg_links) |->
            SwitchEdge((core_links \o core_agg_links)[i])]

\* EnergyAwareControllerAPI.get_topology
GetTopology(map) ==
    IF Len(map) > 0
    THEN [status |-> 200, topology |-> map]
    ELSE [status |-> 500, topology |-> <<>>]

----------------------------------------------------------------------------
(* Inputs of the Energy Manager *)

\* links a discovery service may serve beyond the controller's 39: a
\* switch-to-switch link numbered outside every range ('link_40'), an access
\* link of a host the host table does not list ('link_41', host 13), a second
\* spelling of a number of the 25..36 range ('link_030', between two
\* aggregation switches), a third access link of host 1 ('link_42')
OddLinks ==
    << [id |-> LinkName(40), edge |-> <<4, 8, Mac(4, 8), 5, 8, Mac(5, 8)>>],
       [id |-> LinkName(41), edge |-> <<4, 9, Mac(4, 9), -13, 1, Mac(0, 13)>>],
       [id |-> <<0, 3, 0>>,  edge |-> <<6, 8, Mac(6, 8), 7, 8, Mac(7, 8)>>],
       [id |-> LinkName(42), edge |-> <<7, 9, Mac(7, 9), -1, 1, Mac(0, 1)>>] >>

\* a map whose second link tuple has five fields instead of six
Malformed ==
    << HostEdge(host_links[1]),
       [id |-> LinkName(2), edge |-> <<5, 1, Mac(5, 1), -1, 1>>],
       HostEdge(host_links[3]) >>

\* the maps a 200 answer of the /topology request may carry: the
\* controller's, the controller's with further links, none at all, a
\* malformed one
Topologies == {BuildTopology, BuildTopology \o OddLinks, <<>>, Malformed}

\* 'dpid_a, _, _, dpid_b, _, _ = link_tuple' : unpacking needs six fields
Unpacks(edge) == Len(edge) = 6

\* link identifiers a forecast entry may name: the access links of host 1,
\* the first link of a pair of agg_switch_to_core_links, a link of the
\* 37..39 list, and 'link_99', which is in no topology
ForecastIds ==
    {LinkName(1), LinkName(2), LinkName(27), LinkName(39), LinkName(99)}

\* utilization ratios a forecast entry may carry, in hundredths
Ratios == {5, 10}

\* the entries of a forecast: a link identifier and what its field
\* 'bandwidth_utilization (ratio)' holds, which is a number ("number"), a
\* string that is not a number such as 'n/a' ("text"), or nothing, the field
\* being left out ("absent")
Entry(link_id, ratio, kind) == [link_id |-> link_id, ratio |-> ratio, kind |-> kind]

\* the well-formed entries
Entries == {Entry(l, r, "number") : l \in ForecastIds, r \in Ratios}

RECURSIVE SeqsUpTo(_, _)
SeqsUpTo(S, n) ==
    IF n = 0 THEN {<<>>}
    ELSE LET shorter == SeqsUpTo(S, n - 1)
         IN shorter \cup {Append(q, e) : q \in {r \in shorter : Len(r) = n - 1}, e \in S}

\* the 'predictions' lists of a 200 answer of the forecast service; entries
\* of different links commute in _update_predictions, so the lists are taken
\* in link-number order, entries of one link in either order
Forecasts ==
    {q \in SeqsUpTo(Entries, MaxEntries) :
        \A i \in 1..(Len(q) - 1) : ParseInt(q[i].link_id) <= ParseInt(q[i + 1].link_id)}

\* what the forecast request may come back with: a 200 answer with a
\* 'predictions' list, another status with a body the caller does not read,
\* or no answer at all
Bodies(outcome, lists) ==
    IF outcome = "ok" THEN lists
    ELSE IF outcome = "non200" THEN SeqsUpTo(Entries, 1)
    ELSE {<<>>}

\* the inputs the process is followed under from start to exit: the
\* controller's map or the malformed one; a forecast that lifts link_39 to
\* the threshold, one that carries the ratio 1.5 for it, and forecasts with
\* an entry that lacks its ratio, that names an
\* unknown link with a ratio that is not a number, and that names a known
\* link with such a ratio after a well-formed entry
LifecycleTopologies == {BuildTopology, Malformed}

LifecycleForecasts ==
    { << Entry(LinkName(39), 10, "number") >>,
      << Entry(LinkName(39), 150, "number") >>,
      << Entry(LinkName(2), 0, "absent") >>,
      << Entry(LinkName(99), 0, "text") >>,
      << Entry(LinkName(39), 10, "number"), Entry(LinkName(39), 0, "text") >> }

----------------------------------------------------------------------------
(* energy_manager.py : helpers *)

Keys(map) == {map[i].id : i \in DOMAIN map}

EdgeOf(map, link_id) == map[CHOOSE i \in DOMAIN map : map[i].id = link_id].edge

\* variant of AllLinkIds: the keys in reverse insertion order
AllLinkIdsReversed ==
    [i \in DOMAIN link_index_to_edge |->
        link_index_to_edge[Len(link_index_to_edge) + 1 - i].id]

\* variant of AllLinkIds: the list holds every key twice
AllLinkIdsTwice ==
    [i \in DOMAIN link_index_to_edge |-> link_index_to_edge[i].id]
    \o [i \in DOMAIN link_index_to_edge |-> link_index_to_edge[i].id]

\* list(self.link_states.keys()) : insertion order, which is the order of
\* link_index_to_edge
AllLinkIds == [i \in DOMAIN link_index_to_edge |-> link_index_to_edge[i].id]

host_to_links ==
    << <<LinkName(1), LinkName(2)>>,   <<LinkName(3), LinkName(4)>>,
       <<LinkName(5), LinkName(6)>>,   <<LinkName(7), LinkName(8)>>,
       <<LinkName(9), LinkName(10)>>,  <<LinkName(11), LinkName(12)>>,
       <<LinkName(13), LinkName(14)>>, <<LinkName(15), LinkName(16)>>,
       <<LinkName(17), LinkName(18)>>, <<LinkName(19), LinkName(20)>>,
       <<LinkName(21), LinkName(22)>>, <<LinkName(23), LinkName(24)>> >>

\* keyed by aggregation switch 4..9
agg_switch_to_core_links ==
    [a \in 4..9 |->
        << <<LinkName(25), LinkName(26)>>, <<LinkName(27), LinkName(28)>>,
           <<LinkName(29), LinkName(30)>>, <<LinkName(31), LinkName(32)>>,
           <<LinkName(33), LinkName(34)>>, <<LinkName(35), LinkName(36)>> >>[a - 3]]

InList(x, list) == \E i \in DOMAIN list : list[i] = x

\* variant of OtherActive: the test 'other_link != link_id' is left out
OtherActiveAnyMember(link_id, list, states) ==
    \E i \in DOMAIN list : states[list[i]].active

\* the loop 'for other_link in links: if other_link != link_id and active'
OtherActive(link_id, list, states) ==
    \E i \in DOMAIN list : list[i] # link_id /\ states[list[i]].active

\* variant of IsSafeToSleepHostLink: a listed link is safe whatever its sibling
IsSafeToSleepHostLinkNoSibling(link_id, host_id, states) ==
    IF host_id \notin DOMAIN host_to_links THEN FALSE
    ELSE InList(link_id, host_to_links[host_id])

\* EnergyManager._is_safe_to_sleep_host_link
IsSafeToSleepHostLink(link_id, host_id, states) ==
    IF host_id \notin DOMAIN host_to_links THEN FALSE
    ELSE IF ~InList(link_id, host_to_links[host_id]) THEN FALSE
    ELSE OtherActive(link_id, host_to_links[host_id], states)

\* EnergyManager._is_safe_to_sleep_aggregation_core_link
IsSafeToSleepAggregationCoreLink(link_id, states) ==
    IF \E a \in DOMAIN agg_switch_to_core_links :
            InList(link_id, agg_switch_to_core_links[a])
    THEN LET a == CHOOSE b \in DOMAIN agg_switch_to_core_links :
                        InList(link_id, agg_switch_to_core_links[b])
         IN OtherActive(link_id, agg_switch_to_core_links[a], states)
    ELSE TRUE

\* EnergyManager._is_safe_to_sleep : the branch a link identifier takes
Category(link_id, map) ==
    IF link_id \notin Keys(map) THEN "missing"
    ELSE IF EdgeOf(map, link_id)[4] < 0 THEN "host"
    ELSE IF link_id \in {LinkName(37), LinkName(38), LinkName(39)} THEN "core"
    ELSE IF 25 <= ParseInt(link_id) /\ ParseInt(link_id) <= 36 THEN "agg"
    ELSE "none"

\* EnergyManager._is_safe_to_sleep
IsSafeToSleep(link_id, map, states) ==
    LET category == Category(link_id, map)
    IN IF category = "missing" THEN FALSE
       ELSE IF category = "host"
       THEN IsSafeToSleepHostLink(link_id, -EdgeOf(map, link_id)[4], states)
       ELSE IF category = "core" THEN TRUE
       ELSE IF category = "agg" THEN IsSafeToSleepAggregationCoreLink(link_id, states)
       ELSE FALSE

\* variant of SetLinkState: a link that is woken starts from utilization 0
SetLinkStateResetsUtilization(states, link_id, up) ==
    IF link_id \notin DOMAIN states THEN states
    ELSE [states EXCEPT ![link_id] =
             [active |-> up, utilization |-> IF up THEN 0 ELSE @.utilization]]

\* EnergyManager._set_link_state : the new link_states
SetLinkState(states, link_id, up) ==
    IF link_id \notin DOMAIN states THEN states
    ELSE [states EXCEPT ![link_id].active = up]

\* EnergyManager._set_link_state : the line it logs when the state changes
LogLine(states, link_id, up) ==
    IF link_id \in DOMAIN states /\ states[link_id].active # up
    THEN << <<IF up THEN "WOKE" ELSE "SLEPT", link_id, states[link_id].utilization>> >>
    ELSE <<>>

\* variant of Decision: an active link is a sleep candidate only once a
\* forecast has given it a utilization above 0
DecisionNeedsForecast(link_id, map, states) ==
    LET state == states[link_id]
        util  == state.utilization
    IN IF ~state.active /\ util >= sleep_threshold THEN "wake"
       ELSE IF state.active /\ 0 < util /\ util < sleep_threshold
            THEN IF IsSafeToSleep(link_id, map, states) THEN "sleep" ELSE "keep"
            ELSE "keep"

\* variant of Decision: a sleeping link is woken whatever its utilization
DecisionWakeAlways(link_id, map, states) ==
    LET state == states[link_id]
        util  == state.utilization
    IN IF ~state.active THEN "wake"
       ELSE IF state.active /\ util < sleep_threshold
            THEN IF IsSafeToSleep(link_id, map, states) THEN "sleep" ELSE "keep"
            ELSE "keep"

\* variant of Decision: a sleeping link wakes only above the threshold
DecisionWakeAbove(link_id, map, states) ==
    LET state == states[link_id]
        util  == state.utilization
    IN IF ~state.active /\ util > sleep_threshold THEN "wake"
       ELSE IF state.active /\ util < sleep_threshold
            THEN IF IsSafeToSleep(link_id, map, states) THEN "sleep" ELSE "keep"
            ELSE "keep"

\* variant of Decision: an active link is a sleep candidate at the threshold
DecisionSleepAtThreshold(link_id, map, states) ==
    LET state == states[link_id]
        util  == state.utilization
    IN IF ~state.active /\ util >= sleep_threshold THEN "wake"
       ELSE IF state.active /\ util <= sleep_threshold
            THEN IF IsSafeToSleep(link_id, map, states) THEN "sleep" ELSE "keep"
            ELSE "keep"

\* the branch the body of the loop of _link_management takes for one link
Decision(link_id, map, states) ==
    LET state == states[link_id]
        util  == state.utilization
    IN IF ~state.active /\ util >= sleep_threshold THEN "wake"
       ELSE IF state.active /\ util < sleep_threshold
            THEN IF IsSafeToSleep(link_id, map, states) THEN "sleep" ELSE "keep"
            ELSE "keep"

\* variant of PredictionsOf: the body is returned whatever the status
PredictionsOfAnyStatus(outcome, body) == body

\* EnergyManager._get_predictions : what it returns for the outcome of the
\* request and the 'predictions' list of the body
PredictionsOf(outcome, body) == IF outcome = "ok" THEN body ELSE <<>>

\* pred.get('bandwidth_utilization (ratio)', 0.0)
RawUtil(pred) == IF pred.kind = "absent" THEN 0 ELSE pred.ratio

\* float(raw_util) raises ValueError on a string that is not a number
FloatRaises(pred) == pred.kind = "text"

\* the first entry at which _update_predictions raises: the first one that
\* names a known link and carries a ratio float() rejects; 0 if there is none
FirstRaising(states, preds) ==
    LET bad == {i \in DOMAIN preds :
                   preds[i].link_id \in DOMAIN states /\ FloatRaises(preds[i])}
    IN IF bad = {} THEN 0 ELSE CHOOSE i \in bad : \A j \in bad : i <= j

\* variant of UpdatePredictions: the test 'link_id in self.link_states' is
\* left out and an unknown link gets a state of its own
UpdatePredictionsKeepUnknown(states, preds) ==
    LET named == {preds[i].link_id : i \in DOMAIN preds}
        last(l) == RawUtil(preds[CHOOSE i \in DOMAIN preds :
                            /\ preds[i].link_id = l
                            /\ \A j \in DOMAIN preds : preds[j].link_id = l => j <= i])
    IN [l \in DOMAIN states \cup named |->
           [active      |-> IF l \in DOMAIN states THEN states[l].active ELSE TRUE,
            utilization |-> IF l \in named THEN last(l) ELSE states[l].utilization]]

\* variant of UpdatePredictions: links without an entry fall back to 0.0
UpdatePredictionsResetAbsent(states, preds) ==
    LET named == {preds[i].link_id : i \in DOMAIN preds}
        last(l) == RawUtil(preds[CHOOSE i \in DOMAIN preds :
                            /\ preds[i].link_id = l
                            /\ \A j \in DOMAIN preds : preds[j].link_id = l => j <= i])
    IN [l \in DOMAIN states |->
           [states[l] EXCEPT !.utilization = IF l \in named THEN last(l) ELSE 0]]

\* variant of UpdatePredictions: an entry without the ratio field is skipped,
\* the link keeping the utilization it had
RECURSIVE UpdatePredictionsSkipAbsent(_, _)
UpdatePredictionsSkipAbsent(states, preds) ==
    IF Len(preds) = 0 THEN states
    ELSE LET pred == Head(preds)
             next == IF pred.link_id \in DOMAIN states /\ pred.kind # "absent"
                     THEN [states EXCEPT ![pred.link_id].utilization = RawUtil(pred)]
                     ELSE states
         IN UpdatePredictionsSkipAbsent(next, Tail(preds))

\* EnergyManager._update_predictions : entries are applied in list order
RECURSIVE UpdatePredictions(_, _)
UpdatePredictions(states, preds) ==
    IF Len(preds) = 0 THEN states
    ELSE LET pred == Head(preds)
             next == IF pred.link_id \in DOMAIN states
                     THEN [states EXCEPT ![pred.link_id].utilization = RawUtil(pred)]
                     ELSE states
         IN UpdatePredictions(next, Tail(preds))

\* variant of CalculateEnergyConsumption: a SLEEPING link costs nothing
CalculateEnergyConsumptionActiveOnly(states) ==
    LET active   == Cardinality({l \in DOMAIN states : states[l].active})
        sleeping == Cardinality({l \in DOMAIN states : ~states[l].active})
    IN <<cost_active * active, active, sleeping>>

\* EnergyManager.calculate_energy_consumption
CalculateEnergyConsumption(states) ==
    LET active   == Cardinality({l \in DOMAIN states : states[l].active})
        sleeping == Cardinality({l \in DOMAIN states : ~states[l].active})
    IN <<cost_active * active + cost_sleeping * sleeping, active, sleeping>>

\* variant of AppendMetrics: the series keeps the latest entry only
AppendMetricsLatestOnly(m, e, h) ==
    [hourly_energy |-> <<e[1]>>, active_links_history |-> <<e[2]>>, timestamp |-> <<h>>]

\* EnergyManager._metrics_collector : the three appends
AppendMetrics(m, e, h) ==
    [hourly_energy        |-> Append(m.hourly_energy, e[1]),
     active_links_history |-> Append(m.active_links_history, e[2]),
     timestamp            |-> Append(m.timestamp, h)]

\* variant of ExportRows: the third column holds the energy once more
ExportRowsEnergyTwice(m) ==
    << <<"Hour", "Energy_W", "Active_Links">> >>
    \o [i \in 1..Len(m.timestamp) |->
            <<m.timestamp[i], m.hourly_energy[i], m.hourly_energy[i]>>]

\* EnergyManager.export_metrics : the header and one row per recorded hour
ExportRows(m) ==
    << <<"Hour", "Energy_W", "Active_Links">> >>
    \o [i \in 1..Len(m.timestamp) |->
            <<m.timestamp[i], m.hourly_energy[i], m.active_links_history[i]>>]

\* variant of ExportDue: the test 'hour > 0' is left out
ExportDueFromZero(h) == h % export_period = 0

\* 'if hour > 0 and hour % 6 == 0'
ExportDue(h) == h > 0 /\ h % export_period = 0

\* variant of ExportMetrics: a successful export writes the header and the
\* entries recorded since the previous scheduled export only
ExportMetricsLastPeriod(file, m) ==
    LET rows == ExportRows(m)
        from == IF Len(rows) - 1 > export_period THEN Len(rows) - export_period + 1 ELSE 2
    IN {[file |-> <<rows[1]>> \o SubSeq(rows, from, Len(rows)), line |-> "exported"],
        [file |-> file, line |-> "failed"]}

\* EnergyManager.export_metrics : the file and the log line it leaves.  The
\* file is rewritten in full; if open() raises the file is as it was, if a
\* write raises the file holds the first lines only; either way the handler
\* logs 'Export failed' and returns
ExportMetrics(file, m) ==
    {[file |-> ExportRows(m), line |-> "exported"], [file |-> file, line |-> "failed"]}
    \cup {[file |-> SubSeq(ExportRows(m), 1, k), line |-> "failed"] :
              k \in 0..(IF Len(m.timestamp) < MaxPartial
                        THEN Len(m.timestamp) ELSE MaxPartial)}

----------------------------------------------------------------------------
(* Simulation Files/ryu.py : the switch registry of BasicSwitchController *)

\* the datapath ids of the switches that connect
SwitchIds == {1, 2}

\* the connections a switch makes: each one is a Datapath object of its own
Connections == {1, 2}

\* Datapath.id of a connection that closes before the handshake has set it
NoId == 0

\* a Datapath object
Datapath(id, conn) == [id |-> id, conn |-> conn]

\* the events the handler is registered for: MAIN_DISPATCHER is entered after
\* the handshake, with the id set; DEAD_DISPATCHER is entered from any state
StateChanges ==
    {[state |-> "MAIN_DISPATCHER", datapath |-> Datapath(id, c)] :
         id \in SwitchIds, c \in Connections}
    \cup {[state |-> "DEAD_DISPATCHER", datapath |-> Datapath(id, c)] :
              id \in SwitchIds \cup {NoId}, c \in Connections}

\* 'datapath.id in self.datapaths', the dict being the set of its items
InDatapaths(dps, id) == \E item \in dps : item.id = id

\* variant of StateChangeHandler: a connect event stores the datapath
\* without the test 'datapath.id not in self.datapaths'
StateChangeHandlerOverwrite(dps, log, ev) ==
    LET datapath == ev.datapath
    IN IF ev.state = "MAIN_DISPATCHER"
       THEN [datapaths |-> {item \in dps : item.id # datapath.id}
                              \cup {[id |-> datapath.id, datapath |-> datapath]},
             log       |-> Append(log, <<"connected", datapath.id>>)]
       ELSE IF ev.state = "DEAD_DISPATCHER" /\ InDatapaths(dps, datapath.id)
       THEN [datapaths |-> {item \in dps : item.id # datapath.id},
             log       |-> Append(log, <<"disconnected", datapath.id>>)]
       ELSE [datapaths |-> dps, log |-> log]

\* BasicSwitchController._state_change_handler : the dict and the log after
\* the event
StateChangeHandler(dps, log, ev) ==
    LET datapath == ev.datapath
    IN IF ev.state = "MAIN_DISPATCHER"
       THEN IF ~InDatapaths(dps, datapath.id)
            THEN [datapaths |-> dps \cup {[id |-> datapath.id, datapath |-> datapath]},
                  log       |-> Append(log, <<"connected", datapath.id>>)]
            ELSE [datapaths |-> dps, log |-> log]
       ELSE IF ev.state = "DEAD_DISPATCHER"
       THEN IF InDatapaths(dps, datapath.id)
            THEN [datapaths |-> {item \in dps : item.id # datapath.id},
                  log       |-> Append(log, <<"disconnected", datapath.id>>)]
            ELSE [datapaths |-> dps, log |-> log]
       ELSE [datapaths |-> dps, log |-> log]

----------------------------------------------------------------------------
(* ml_predictor_service.py : the dataset and the MockLSTMPredictor *)

\* the hours of the dataset, as integers in the order of their datetimes
Timestamps == {1, 2, 3}

\* the rows of 5g_backhaul_traffic.csv, reduced to the columns the service
\* reads itself
Rows == [timestamp : Timestamps, link_id : {LinkName(1), LinkName(2)}]

\* the datasets the service is followed on: __init__ prints
\* hourly_timestamps[0], so a service that runs has loaded at least one row
Datasets == SeqsUpTo(Rows, MaxRecords) \ {<<>>}

\* the dataset of the service while the Energy Manager alone is followed
OneRecord == << [timestamp |-> 1, link_id |-> LinkName(1)] >>

\* variant of SortedUnique: df['timestamp'].unique() without sorted(), the
\* values in the order of their first row
UniqueUnsorted(df) ==
    LET first == {i \in DOMAIN df : \A j \in 1..(i - 1) : df[j].timestamp # df[i].timestamp}
    IN [k \in 1..Cardinality(first) |->
           df[CHOOSE i \in first : Cardinality({j \in first : j < i}) = k - 1].timestamp]

\* sorted(self.df['timestamp'].unique())
SortedUnique(df) ==
    LET values == {df[i].timestamp : i \in DOMAIN df}
    IN [k \in 1..Cardinality(values) |->
           CHOOSE t \in values : Cardinality({u \in values : u < t}) = k - 1]

\* MockLSTMPredictor.__init__
MockLSTMPredictor(df) ==
    [df                 |-> df,
     current_hour_index |-> 0,
     hourly_timestamps  |-> SortedUnique(df),
     total_hours        |-> Len(SortedUnique(df))]

\* MockLSTMPredictor.get_next_hour_predictions : the object after the call
\* and the records returned
GetNextHourPredictions(p) ==
    IF p.total_hours = 0 THEN [predictor |-> p, records |-> <<>>]
    ELSE LET current_timestamp == p.hourly_timestamps[p.current_hour_index + 1]
             hour_data == SelectSeq(p.df, LAMBDA row : row.timestamp = current_timestamp)
         IN [predictor |-> [p EXCEPT !.current_hour_index =
                                         (p.current_hour_index + 1) % p.total_hours],
             records   |-> hour_data]

----------------------------------------------------------------------------
(* energy_manager.py : the state machine of run_simulation and __main__ *)

Init ==
    /\ pc = "topology"
    /\ link_index_to_edge = <<>>
    /\ link_states = <<>>
    /\ hour = 0
    /\ idx = 0
    /\ predictions = <<>>
    /\ fetch = "none"
    /\ events = <<>>
    /\ metrics = [hourly_energy |-> <<>>, active_links_history |-> <<>>, timestamp |-> <<>>]
    /\ csv_file = <<>>
    /\ topo_fetch = "none"
    /\ retry_delay = 0
    /\ export_log = <<>>
    /\ predictor = MockLSTMPredictor(OneRecord)
    /\ sent = <<>>
    /\ datapaths = {}
    /\ state_changes = <<>>
    /\ controller_log = << <<"initialized">> >>

\* get_topology_from_ryu, one pass of its loop that does not return: the
\* request raises (the handler sleeps 5 s) or the answer is not a 200, as the
\* controller's is while its map is empty (the loop starts over at once)
GetTopologyRetry ==
    /\ pc = "topology"
    /\ \E outcome \in {"exception", "non200"} :
          /\ outcome = "non200" => GetTopology(<<>>).status # 200
          /\ topo_fetch' = outcome
          /\ retry_delay' = IF outcome = "exception" THEN retry_sleep ELSE 0
    /\ UNCHANGED <<pc, link_index_to_edge, link_states, hour, idx, predictions,
                   fetch, events, metrics, csv_file, export_log>>
    /\ UNCHANGED <<predictor, sent, datapaths, state_changes, controller_log>>

\* get_topology_from_ryu, the pass that returns: a 200 answer fills
\* link_index_to_edge in the order of the body and sets every link ACTIVE
\* with utilization 0; run_simulation then enters its loop with hour = 0
GetTopologyOkFrom(maps) ==
    /\ pc = "topology"
    /\ \E t \in maps :
          /\ \A i \in DOMAIN t : Unpacks(t[i].edge)
          /\ link_index_to_edge' = t
          /\ link_states' = [l \in Keys(t) |-> [active |-> TRUE, utilization |-> 0]]
    /\ topo_fetch' = "ok"
    /\ retry_delay' = 0
    /\ pc' = "predict"
    /\ hour' = 0
    /\ UNCHANGED <<idx, predictions, fetch, events, metrics, csv_file, export_log>>
    /\ UNCHANGED <<predictor, sent, datapaths, state_changes, controller_log>>

\* get_topology_from_ryu on a 200 answer with a tuple that does not unpack:
\* the first loop has stored every tuple, the second one raises ValueError at
\* that tuple; the exception leaves run_simulation and __main__ logs
\* 'FATAL ERROR' and ends the process
GetTopologyRaisesFrom(maps) ==
    /\ pc = "topology"
    /\ \E t \in maps :
          /\ \E i \in DOMAIN t : ~Unpacks(t[i].edge)
          /\ LET bad == CHOOSE i \in DOMAIN t :
                           /\ ~Unpacks(t[i].edge)
                           /\ \A j \in 1..(i - 1) : Unpacks(t[j].edge)
             IN /\ link_index_to_edge' = t
                /\ link_states' = [l \in Keys(SubSeq(t, 1, bad - 1)) |->
                                      [active |-> TRUE, utilization |-> 0]]
    /\ topo_fetch' = "ok"
    /\ retry_delay' = 0
    /\ pc' = "fatal"
    /\ UNCHANGED <<hour, idx, predictions, fetch, events, metrics, csv_file,
                   export_log>>
    /\ UNCHANGED <<predictor, sent, datapaths, state_changes, controller_log>>

\* _get_predictions : a 200 answer returns its list, any other answer and a
\* failed request return []
GetPredictionsFrom(limit, lists) ==
    /\ pc = "predict"
    /\ hour < limit
    /\ \E outcome \in {"ok", "non200", "exception"} :
       \E body \in Bodies(outcome, lists) :
          /\ fetch' = outcome
          /\ predictions' = PredictionsOf(outcome, body)
    /\ pc' = "update"
    /\ UNCHANGED <<link_index_to_edge, link_states, hour, idx, events, metrics,
                   csv_file, topo_fetch, retry_delay, export_log>>
    /\ UNCHANGED <<predictor, sent, datapaths, state_changes, controller_log>>

\* 'if predictions: self._update_predictions(predictions)', then the entry of
\* _link_management; the list is not read again after this step
ApplyPredictions ==
    /\ pc = "update"
    /\ FirstRaising(link_states, predictions) = 0
    /\ link_states' = IF Len(predictions) > 0
                      THEN UpdatePredictions(link_states, predictions)
                      ELSE link_states
    /\ predictions' = <<>>
    /\ idx' = 1
    /\ pc' = "manage"
    /\ UNCHANGED <<link_index_to_edge, hour, fetch, events, metrics, csv_file,
                   topo_fetch, retry_delay, export_log>>
    /\ UNCHANGED <<predictor, sent, datapaths, state_changes, controller_log>>

\* _update_predictions raises at an entry: the entries before it are applied,
\* the ValueError leaves run_simulation, __main__ logs 'FATAL ERROR' and the
\* process ends
UpdatePredictionsRaises ==
    /\ pc = "update"
    /\ FirstRaising(link_states, predictions) > 0
    /\ link_states' =
          UpdatePredictions(link_states,
              SubSeq(predictions, 1, FirstRaising(link_states, predictions) - 1))
    /\ pc' = "fatal"
    /\ UNCHANGED <<link_index_to_edge, hour, idx, predictions, fetch, events,
                   metrics, csv_file, topo_fetch, retry_delay, export_log>>
    /\ UNCHANGED <<predictor, sent, datapaths, state_changes, controller_log>>

\* one iteration of the for loop of _link_management
LinkManagementStep ==
    /\ pc = "manage"
    /\ idx <= Len(AllLinkIds)
    /\ LET link_id  == AllLinkIds[idx]
           decision == Decision(link_id, link_index_to_edge, link_states)
       IN IF decision = "wake"
          THEN /\ link_states' = SetLinkState(link_states, link_id, TRUE)
               /\ events' = events \o LogLine(link_states, link_id, TRUE)
          ELSE IF decision = "sleep"
          THEN /\ link_states' = SetLinkState(link_states, link_id, FALSE)
               /\ events' = events \o LogLine(link_states, link_id, FALSE)
          ELSE UNCHANGED <<link_states, events>>
    /\ idx' = idx + 1
    /\ UNCHANGED <<pc, link_index_to_edge, hour, predictions, fetch, metrics,
                   csv_file, topo_fetch, retry_delay, export_log>>
    /\ UNCHANGED <<predictor, sent, datapaths, state_changes, controller_log>>

\* variant of MetricsCollector: the entry is computed before the loop of
\* _link_management has evaluated a link
MetricsCollectorBeforeManagement ==
    /\ pc = "manage"
    /\ idx = 1
    /\ metrics' = AppendMetrics(metrics, CalculateEnergyConsumption(link_states), hour)
    /\ pc' = "export"
    /\ UNCHANGED <<link_index_to_edge, link_states, hour, idx, predictions, fetch,
                   events, csv_file, topo_fetch, retry_delay, export_log>>
    /\ UNCHANGED <<predictor, sent, datapaths, state_changes, controller_log>>

\* the loop of _link_management is over; _metrics_collector(hour)
MetricsCollector ==
    /\ pc = "manage"
    /\ idx > Len(AllLinkIds)
    /\ metrics' = AppendMetrics(metrics, CalculateEnergyConsumption(link_states), hour)
    /\ pc' = "export"
    /\ UNCHANGED <<link_index_to_edge, link_states, hour, idx, predictions, fetch,
                   events, csv_file, topo_fetch, retry_delay, export_log>>
    /\ UNCHANGED <<predictor, sent, datapaths, state_changes, controller_log>>

\* 'if hour > 0 and hour % 6 == 0: self.export_metrics()', 'hour += 1', the
\* 10 s sleep and the banner of the next hour
NextHour ==
    /\ pc = "export"
    /\ IF ExportDue(hour)
       THEN \E result \in ExportMetrics(csv_file, metrics) :
               /\ csv_file' = result.file
               /\ export_log' = Append(export_log, result.line)
       ELSE UNCHANGED <<csv_file, export_log>>
    /\ hour' = hour + 1
    /\ pc' = "predict"
    /\ idx' = 0
    /\ fetch' = "none"
    /\ events' = <<>>
    /\ UNCHANGED <<link_index_to_edge, link_states, predictions, metrics, topo_fetch,
                   retry_delay>>
    /\ UNCHANGED <<predictor, sent, datapaths, state_changes, controller_log>>

\* variant of Interrupt: the handler ends the process without an export
InterruptNoExport ==
    /\ pc \notin {"exited", "fatal"}
    /\ pc' = "exited"
    /\ UNCHANGED <<link_index_to_edge, link_states, hour, idx, predictions, fetch,
                   events, metrics, csv_file, topo_fetch, retry_delay, export_log>>
    /\ UNCHANGED <<predictor, sent, datapaths, state_changes, controller_log>>

\* __main__ : KeyboardInterrupt raised anywhere in run_simulation is caught,
\* export_metrics is called once and the process ends
Interrupt ==
    /\ pc \notin {"exited", "fatal"}
    /\ \E result \in ExportMetrics(csv_file, metrics) :
          /\ csv_file' = result.file
          /\ export_log' = Append(export_log, result.line)
    /\ pc' = "exited"
    /\ UNCHANGED <<link_index_to_edge, link_states, hour, idx, predictions, fetch,
                   events, metrics, topo_fetch, retry_delay>>
    /\ UNCHANGED <<predictor, sent, datapaths, state_changes, controller_log>>

GetTopologyOk == GetTopologyOkFrom(Topologies)

GetTopologyRaises == GetTopologyRaisesFrom(Topologies)

GetPredictions == GetPredictionsFrom(MaxHour, Forecasts)

\* the control loop under every well-formed forecast of the model, left to run
Next ==
    \/ GetTopologyRetry
    \/ GetTopologyOk
    \/ GetTopologyRaises
    \/ GetPredictions
    \/ ApplyPredictions
    \/ LinkManagementStep
    \/ MetricsCollector
    \/ NextHour

Spec == Init /\ [][Next]_vars

LifecycleGetTopologyOk == GetTopologyOkFrom(LifecycleTopologies)

LifecycleGetTopologyRaises == GetTopologyRaisesFrom(LifecycleTopologies)

LifecycleGetPredictions == GetPredictionsFrom(MaxTick, LifecycleForecasts)

\* the process from start to exit, over enough hours for two scheduled
\* exports, under a few forecasts and with the interrupt signal
LifecycleNext ==
    \/ GetTopologyRetry
    \/ LifecycleGetTopologyOk
    \/ LifecycleGetTopologyRaises
    \/ LifecycleGetPredictions
    \/ ApplyPredictions
    \/ UpdatePredictionsRaises
    \/ LinkManagementStep
    \/ MetricsCollector
    \/ NextHour
    \/ Interrupt

LifecycleSpec == Init /\ [][LifecycleNext]_vars

\* the forecast service answers with a list in the first hours and with no
\* list at all (request exception or another status) from then on
SettleGetPredictions ==
    GetPredictionsFrom(MaxForecastHour + QuietHours,
                       IF hour < MaxForecastHour THEN Forecasts ELSE {})

\* the control loop while the forecast service goes away for good
SettleNext ==
    \/ GetTopologyRetry
    \/ GetTopologyOk
    \/ GetTopologyRaises
    \/ SettleGetPredictions
    \/ ApplyPredictions
    \/ LinkManagementStep
    \/ MetricsCollector
    \/ NextHour

SettleSpec == Init /\ [][SettleNext]_vars

\* forecast lists of a service whose records may lack the column
\* 'bandwidth_utilization (ratio)'
ResetForecasts ==
    { << Entry(LinkName(39), 10, "number") >>,
      << Entry(LinkName(39), 0, "absent") >>,
      << Entry(LinkName(1), 5, "number"), Entry(LinkName(1), 0, "absent") >>,
      << Entry(LinkName(1), 0, "absent"), Entry(LinkName(1), 5, "number") >> }

ResetGetPredictions == GetPredictionsFrom(MaxResetHour, ResetForecasts)

\* the control loop fed by that service
ResetNext ==
    \/ GetTopologyRetry
    \/ GetTopologyOk
    \/ GetTopologyRaises
    \/ ResetGetPredictions
    \/ ApplyPredictions
    \/ LinkManagementStep
    \/ MetricsCollector
    \/ NextHour

ResetSpec == Init /\ [][ResetNext]_vars

\* ml_predictor_service.py after 'predictor = MockLSTMPredictor(...)', the
\* Energy Manager not started
PredictorInit ==
    /\ pc = "topology"
    /\ link_index_to_edge = <<>>
    /\ link_states = <<>>
    /\ hour = 0
    /\ idx = 0
    /\ predictions = <<>>
    /\ fetch = "none"
    /\ events = <<>>
    /\ metrics = [hourly_energy |-> <<>>, active_links_history |-> <<>>, timestamp |-> <<>>]
    /\ csv_file = <<>>
    /\ topo_fetch = "none"
    /\ retry_delay = 0
    /\ export_log = <<>>
    /\ predictor \in {MockLSTMPredictor(df) : df \in Datasets}
    /\ sent = <<>>
    /\ datapaths = {}
    /\ state_changes = <<>>
    /\ controller_log = << <<"initialized">> >>

\* get_predictions, the handler of /predictions/next_hour : the 'timestamp'
\* of the answer is read after the index has advanced; 0 stands for None
get_predictions ==
    /\ Len(sent) < MaxCalls
    /\ LET call == GetNextHourPredictions(predictor)
           after == call.predictor
       IN /\ predictor' = after
          /\ sent' = Append(sent,
                 [timestamp   |-> IF Len(call.records) > 0
                                  THEN after.hourly_timestamps[after.current_hour_index + 1]
                                  ELSE 0,
                  predictions |-> call.records])
    /\ UNCHANGED manager_vars
    /\ UNCHANGED <<datapaths, state_changes, controller_log>>

PredictorNext == get_predictions

PredictorSpec == PredictorInit /\ [][PredictorNext]_vars

\* the basic controller handles one state-change event
state_change_handler ==
    /\ Len(state_changes) < MaxEvents
    /\ \E ev \in StateChanges :
          LET after == StateChangeHandler(datapaths, controller_log, ev)
          IN /\ datapaths' = after.datapaths
             /\ controller_log' = after.log
             /\ state_changes' = Append(state_changes, ev)
    /\ UNCHANGED manager_vars
    /\ UNCHANGED <<predictor, sent>>

RegistryNext == state_change_handler

\* the basic controller from its construction on, fed any events
RegistrySpec == Init /\ [][RegistryNext]_vars

----------------------------------------------------------------------------
(* The structure of the served topology, read off the endpoints of its links *)

CoreSwitches == {1, 2, 3}

AggSwitches == {4, 5, 6, 7, 8, 9}

Hosts == {-h : h \in 1..12}

Loaded == pc # "topology"

\* the cycle of the current hour is over
CycleDone == pc = "export" \/ (pc = "manage" /\ idx > Len(AllLinkIds))

EndA(link_id) == EdgeOf(link_index_to_edge, link_id)[1]

EndB(link_id) == EdgeOf(link_index_to_edge, link_id)[4]

Joins(link_id, A, B) ==
    \/ EndA(link_id) \in A /\ EndB(link_id) \in B
    \/ EndA(link_id) \in B /\ EndB(link_id) \in A

Active(link_id) == link_states[link_id].active

Util(link_id) == link_states[link_id].utilization

ActiveLinks == {l \in DOMAIN link_states : Active(l)}

\* links attached to node n
LinksAt(n) ==
    {link_index_to_edge[i].id :
        i \in {j \in DOMAIN link_index_to_edge :
                  \/ link_index_to_edge[j].edge[1] = n
                  \/ link_index_to_edge[j].edge[4] = n}}

\* core uplinks of aggregation switch a
CoreUplinks(a) == {l \in DOMAIN link_states : Joins(l, {a}, CoreSwitches)}

\* nodes reachable from the nodes of S over the links of L
RECURSIVE Reach(_, _)
Reach(S, L) ==
    LET more == S \cup {EndA(l) : l \in {k \in L : EndB(k) \in S}}
                  \cup {EndB(l) : l \in {k \in L : EndA(k) \in S}}
    IN IF more = S THEN S ELSE Reach(more, L)

\* the links the safety evaluator looks at when it decides on link_id
ConsultedGroup(link_id) ==
    LET category == Category(link_id, link_index_to_edge)
    IN IF category = "host"
       THEN IF -EndB(link_id) \in DOMAIN host_to_links
               /\ InList(link_id, host_to_links[-EndB(link_id)])
            THEN {host_to_links[-EndB(link_id)][i] : i \in 1..2}
            ELSE {}
       ELSE IF category = "agg"
       THEN UNION {{agg_switch_to_core_links[a][i] : i \in 1..2} :
                      a \in {b \in DOMAIN agg_switch_to_core_links :
                                InList(link_id, agg_switch_to_core_links[b])}}
       ELSE {}

----------------------------------------------------------------------------
(* Claims *)

\* C1: on the controller's 39-link topology, whenever a control cycle is
\* over, every host h1..h12 is reachable from every core switch s1..s3 over
\* ACTIVE links only.
C1_Connectivity ==
    (link_index_to_edge = BuildTopology /\ CycleDone) =>
        \A c \in CoreSwitches : Hosts \subseteq Reach({c}, ActiveLinks)

\* C3: on the controller's topology every aggregation switch s4..s9 has, in
\* every state, at least one ACTIVE link to a core switch.
C3_AggregationUplink ==
    (link_index_to_edge = BuildTopology /\ Loaded) =>
        \A a \in AggSwitches : \E l \in CoreUplinks(a) : Active(l)

\* C4: on the controller's topology the evaluator's branch for a link is the
\* host branch iff the link attaches a host, the core-mesh branch iff both
\* ends are core switches, the aggregation branch iff it joins an aggregation
\* switch to a core switch, and the group it consults is the set of links
\* sharing that host or that aggregation switch.
C4_Classification ==
    (link_index_to_edge = BuildTopology /\ Loaded) =>
        \A l \in DOMAIN link_states :
            LET category == Category(l, link_index_to_edge) IN
            /\ category = "host" <=> Joins(l, Hosts, AggSwitches \cup CoreSwitches)
            /\ category = "core" <=> Joins(l, CoreSwitches, CoreSwitches)
            /\ category = "agg" <=> Joins(l, AggSwitches, CoreSwitches)
            /\ category = "host" => ConsultedGroup(l) = LinksAt(EndB(l))
            /\ category = "agg" =>
                  \E a \in AggSwitches : /\ l \in CoreUplinks(a)
                                         /\ ConsultedGroup(l) = CoreUplinks(a)

\* hosts that have an access link in the served topology
ServedHosts ==
    {link_index_to_edge[i].edge[4] :
        i \in {j \in DOMAIN link_index_to_edge : link_index_to_edge[j].edge[4] < 0}}

\* the log of the current cycle has a line of this kind for the link
Logged(kind, link_id) ==
    \E i \in DOMAIN events : events[i][1] = kind /\ events[i][2] = link_id

\* the power state the link had when the current cycle began
ActiveAtCycleStart(link_id) ==
    IF Logged("WOKE", link_id) THEN FALSE
    ELSE IF Logged("SLEPT", link_id) THEN TRUE
    ELSE Active(link_id)

\* the step about to be taken is an iteration of the loop of _link_management
InLoop == pc = "manage" /\ idx <= Len(link_index_to_edge)

\* the link that iteration evaluates
Current == link_index_to_edge[idx].id

FetchFailed == fetch = "non200" \/ fetch = "exception"

\* every served host has an ACTIVE access link, and the log of the current
\* cycle has SLEPT for at most one access link of a host
HostsKeepAnActiveLink ==
    \A h \in ServedHosts :
        /\ \E l \in LinksAt(h) : Active(l)
        /\ Cardinality({l \in LinksAt(h) : Logged("SLEPT", l)}) <= 1

\* the power state of every link
PowerStates == [l \in DOMAIN link_states |-> Active(l)]

\* C2: every step that changes a power state or the log of the cycle (the
\* process going on) leads
\* to a state where every host has at least one ACTIVE access link and where
\* the current cycle has put at most one access link of a host to sleep; an
\* access link goes to sleep only in a step where another access link of its
\* host is ACTIVE.
C2_HostRedundancy ==
    [][/\ ((PowerStates' # PowerStates \/ events' # events) /\ pc' # "fatal")
            => HostsKeepAnActiveLink'
       /\ \A l \in DOMAIN link_states \cap DOMAIN link_states' :
            (Active(l) /\ ~link_states'[l].active /\ EndB(l) < 0) =>
                \E k \in LinksAt(EndB(l)) \ {l} : Active(k) /\ link_states'[k].active]_vars

\* a host access link was put to sleep while its sibling stayed ACTIVE, and
\* in a later cycle the roles were swapped
C2_Witness ==
    /\ CycleDone
    /\ Logged("WOKE", LinkName(1))
    /\ Logged("SLEPT", LinkName(2))
    /\ Active(LinkName(1))
    /\ ~Active(LinkName(2))

\* C5: once a link has been evaluated in a cycle with utilization >= the
\* threshold it is ACTIVE for the rest of that cycle, whatever its state was
\* before and whatever the state of the other links.
C5_WakeMonotonicity ==
    (pc = "manage" \/ pc = "export") =>
        \A i \in DOMAIN AllLinkIds :
            (i < idx /\ Util(AllLinkIds[i]) >= sleep_threshold) => Active(AllLinkIds[i])

\* a SLEEPING link was woken at the threshold while its sibling was ACTIVE
C5_Witness ==
    /\ CycleDone
    /\ \E i \in DOMAIN events :
          /\ events[i][1] = "WOKE"
          /\ events[i][3] = sleep_threshold
          /\ events[i][2] = LinkName(1)
    /\ ActiveAtCycleStart(LinkName(2))

\* C6: in every step a link goes from ACTIVE to SLEEPING iff it is the link
\* being evaluated, its utilization is strictly below the threshold and the
\* safety evaluator returns true on the current link states; an ACTIVE link
\* at or above the threshold and a SLEEPING link below it are left unchanged.
C6_SleepGuard ==
    [][IF InLoop
       THEN /\ (Active(Current) /\ ~link_states'[Current].active) <=>
                  (/\ Active(Current)
                   /\ Util(Current) < sleep_threshold
                   /\ IsSafeToSleep(Current, link_index_to_edge, link_states))
            /\ (Active(Current) /\ Util(Current) >= sleep_threshold)
                  => link_states'[Current].active
            /\ (~Active(Current) /\ Util(Current) < sleep_threshold)
                  => ~link_states'[Current].active
            /\ \A l \in DOMAIN link_states \ {Current} : link_states'[l] = link_states[l]
       ELSE \A l \in DOMAIN link_states \cap DOMAIN link_states' :
                Active(l) => link_states'[l].active]_vars

\* in one cycle a link slept below the threshold, an ACTIVE link below the
\* threshold was refused by the evaluator, an ACTIVE link at the threshold
\* and a SLEEPING link below it were passed over
C6_Witness ==
    /\ CycleDone
    /\ Logged("SLEPT", LinkName(39))
    /\ Active(LinkName(2)) /\ Util(LinkName(2)) < sleep_threshold
    /\ Active(LinkName(27)) /\ Util(LinkName(27)) = sleep_threshold
    /\ ~Active(LinkName(1)) /\ ~Logged("SLEPT", LinkName(1))
    /\ Util(LinkName(1)) < sleep_threshold

\* the evaluator has a category and, for a host or aggregation link, a
\* redundancy group for the link
Classified(link_id) ==
    \/ Category(link_id, link_index_to_edge) = "core"
    \/ ConsultedGroup(link_id) # {}

\* C7: a link the evaluator has no category or no redundancy group for is
\* never put to sleep, whatever its utilization.
C7_FailClosed ==
    Loaded => \A l \in DOMAIN link_states : ~Classified(l) => Active(l)

\* C8: a host with two access links, both ACTIVE when the cycle begins and
\* both evaluated below the threshold (0.05 in the scenario), ends the cycle
\* with exactly one of them SLEEPING and the other ACTIVE.
C8_PairedSleep ==
    CycleDone =>
        \A h \in ServedHosts :
            (/\ Cardinality(LinksAt(h)) = 2
             /\ \A l \in LinksAt(h) : ActiveAtCycleStart(l) /\ Util(l) < sleep_threshold)
            => Cardinality({l \in LinksAt(h) : Active(l)}) = 1

\* the scenario itself: 0.05 on both access links of host 1, both ACTIVE at
\* the start of the cycle
C8_Witness ==
    /\ CycleDone
    /\ link_index_to_edge = BuildTopology
    /\ Util(LinkName(1)) = 5 /\ Util(LinkName(2)) = 5
    /\ ActiveAtCycleStart(LinkName(1)) /\ ActiveAtCycleStart(LinkName(2))
    /\ ~Active(LinkName(1))
    /\ Active(LinkName(2))

\* C9 as stated: during a tick whose forecast fetch failed no link's power
\* state or utilization changes.
C9_FailedTickUnaltered ==
    [][FetchFailed => link_states' = link_states]_vars

\* C9 as amended: during a tick whose forecast fetch failed no link's
\* utilization changes (link management still runs on the retained values).
C9_FailedTickKeepsUtilization ==
    [][FetchFailed =>
          /\ DOMAIN link_states' = DOMAIN link_states
          /\ \A l \in DOMAIN link_states : link_states'[l].utilization = Util(l)]_vars

\* on a tick whose fetch failed a link was put to sleep on a utilization
\* retained from an earlier forecast
C9_Witness ==
    /\ FetchFailed
    /\ CycleDone
    /\ \E i \in DOMAIN events : events[i][1] = "SLEPT" /\ events[i][3] > 0

\* the links a forecast has an entry for
Named(preds) == {preds[i].link_id : i \in DOMAIN preds}

\* C10: applying a forecast leaves the utilization of every link without an
\* entry as it was, nothing else changes a utilization before the link is
\* evaluated, and the evaluation compares that value with the threshold.
C10_Staleness ==
    [][/\ pc = "update" =>
            \A l \in DOMAIN link_states \ Named(predictions) :
                link_states'[l].utilization = Util(l)
       /\ pc = "manage" =>
            \A l \in DOMAIN link_states : link_states'[l].utilization = Util(l)
       /\ InLoop =>
            /\ (~Active(Current) /\ Util(Current) >= sleep_threshold)
                  => link_states'[Current].active
            /\ link_states'[Current].active # Active(Current)
                  => (Active(Current) <=> Util(Current) < sleep_threshold)]_vars

\* the whole forecast is unavailable in an hour after the first: link_1 stays
\* asleep on its retained 0.05 and link_39 stays ACTIVE on its retained 0.10
C10_Witness ==
    /\ FetchFailed
    /\ CycleDone
    /\ hour > 0
    /\ link_index_to_edge = BuildTopology
    /\ Util(LinkName(1)) = 5 /\ ~Active(LinkName(1))
    /\ Util(LinkName(39)) = 10 /\ Active(LinkName(39))

\* the entries of a forecast that name a link of the topology
KnownEntries(preds) == SelectSeq(preds, LAMBDA pred : pred.link_id \in DOMAIN link_states)

\* C11: applying a forecast adds no link and removes none, changes no power
\* state, and leaves every link with the ratio of the last entry that names
\* it, or with its previous utilization if no entry does: an entry naming a
\* link that is not in the topology has no effect on any link.
C11_UnknownDropped ==
    [][(pc = "update" /\ pc' = "manage") =>
          LET known == KnownEntries(predictions) IN
          /\ DOMAIN link_states' = DOMAIN link_states
          /\ \A l \in DOMAIN link_states :
                /\ link_states'[l].active = Active(l)
                /\ link_states'[l].utilization =
                      IF l \in Named(known)
                      THEN known[CHOOSE i \in DOMAIN known :
                                    /\ known[i].link_id = l
                                    /\ \A j \in DOMAIN known :
                                          known[j].link_id = l => j <= i].ratio
                      ELSE Util(l)]_vars

\* a forecast about to be applied names link_1, asleep on 0.05, and then
\* 'link_99', which no topology has
C11_Witness ==
    /\ pc = "update"
    /\ link_index_to_edge = BuildTopology
    /\ predictions = << Entry(LinkName(1), 10, "number"), Entry(LinkName(99), 10, "number") >>
    /\ ~Active(LinkName(1)) /\ Util(LinkName(1)) = 5

\* the process is inside a control cycle
InCycle == pc \in {"predict", "update", "manage", "export"}

\* C12: no step of a control cycle ends the process: whatever the forecast
\* service returns, the step after a cycle's step is again a step of the
\* control loop, never the 'FATAL ERROR' exit of __main__.
C12_NoCycleFatal ==
    [][InCycle => pc' # "fatal"]_vars

\* C13: a pass of the topology loop either stays in the loop (the fetch is
\* retried) or starts the control loop with a topology that has at least one
\* link and only six-field tuples; on an empty or malformed answer the
\* process neither aborts nor starts the control loop.
C13_TopologyRetried ==
    [][pc = "topology" =>
          \/ pc' = "topology"
          \/ /\ pc' = "predict"
             /\ Len(link_index_to_edge') > 0
             /\ \A i \in DOMAIN link_index_to_edge' : Unpacks(link_index_to_edge'[i].edge)]_vars

\* C14: the control loop is entered only by a pass of the topology loop whose
\* fetch succeeded; once it is entered the topology loop is never run again
\* and the loaded map never changes; every pass that does not return (request
\* exception or non-200 answer) sleeps the fixed retry delay before the next
\* request.
C14_BootstrapOrdering ==
    [][/\ InCycle' => topo_fetch' = "ok"
       /\ pc # "topology" =>
            /\ pc' # "topology"
            /\ link_index_to_edge' = link_index_to_edge
            /\ topo_fetch' = topo_fetch
       /\ (pc = "topology" /\ pc' = "topology") => retry_delay' = retry_sleep]_vars

\* C15: an iteration of the loop of _link_management evaluates a link of the
\* topology that no earlier iteration of the cycle has evaluated, and the
\* loop ends when it has evaluated as many links as the topology has: every
\* link is evaluated exactly once.  The iteration changes the power state of
\* the evaluated link iff it logs a WOKE or SLEPT line for it, the log of the
\* cycle has no earlier line for that link, and no other link changes: no
\* link changes its power state twice in a cycle.
C15_OneTransition ==
    [][LET ids == AllLinkIds IN
       /\ (pc = "manage" /\ idx <= Len(ids)) =>
            /\ ids[idx] \in DOMAIN link_states
            /\ \A i \in 1..(idx - 1) : ids[i] # ids[idx]
            /\ ~Logged("WOKE", ids[idx]) /\ ~Logged("SLEPT", ids[idx])
            /\ events' # events <=> link_states'[ids[idx]].active # Active(ids[idx])
            /\ events' # events =>
                 /\ Len(events') = Len(events) + 1
                 /\ events'[Len(events')][2] = ids[idx]
            /\ \A l \in DOMAIN link_states \ {ids[idx]} :
                 link_states'[l].active = Active(l)
            /\ idx' = idx + 1
       /\ (pc = "manage" /\ idx > Len(ids)) =>
            /\ idx - 1 = Cardinality(DOMAIN link_states)
            /\ link_states' = link_states]_vars

\* one cycle has put link_1 to sleep and woken link_39, each once
C15_Witness ==
    /\ CycleDone
    /\ Logged("SLEPT", LinkName(1))
    /\ Logged("WOKE", LinkName(39))
    /\ Len(events) = 2

\* the latest entry of the metrics series
LastEntry ==
    [energy |-> metrics.hourly_energy[Len(metrics.hourly_energy)],
     active |-> metrics.active_links_history[Len(metrics.active_links_history)],
     hour   |-> metrics.timestamp[Len(metrics.timestamp)]]

SleepingLinks == DOMAIN link_states \ ActiveLinks

\* C16: when the entry of a cycle has been recorded, its energy is 100 times
\* the number of ACTIVE links plus 10 times the number of SLEEPING links, its
\* active count is the number of ACTIVE links, and ACTIVE and SLEEPING links
\* together are the links of the topology.
C16_EnergyFormula ==
    pc = "export" =>
        /\ LastEntry.energy =
              100 * Cardinality(ActiveLinks) + 10 * Cardinality(SleepingLinks)
        /\ LastEntry.active = Cardinality(ActiveLinks)
        /\ Cardinality(ActiveLinks) + Cardinality(SleepingLinks)
              = Len(link_index_to_edge)
        /\ CalculateEnergyConsumption(link_states)[2]
              + CalculateEnergyConsumption(link_states)[3] = Len(link_index_to_edge)

\* the entry of a cycle on the controller's topology that left 18 links
\* ACTIVE and 21 SLEEPING: 18 * 100 + 21 * 10 = 2010
C16_Witness ==
    /\ pc = "export"
    /\ link_index_to_edge = BuildTopology
    /\ LastEntry.energy = 2010
    /\ LastEntry.active = 18
    /\ Cardinality(SleepingLinks) = 21

\* q is p, or p with further elements after it
Extends(q, p) == Len(q) >= Len(p) /\ SubSeq(q, 1, Len(p)) = p

\* C17: after every step the three lists of the metrics have the same
\* length, the recorded cycle indices are 0, 1, 2, ... in order, inside the
\* control loop there is one entry per tick begun before and one more once
\* the current tick has recorded its own, and a step (of a cycle, an export
\* or the interrupt handler) leaves every entry it found in place and adds
\* at most one.
C17_AppendOnly ==
    [][/\ Len(metrics'.hourly_energy) = Len(metrics'.timestamp)
       /\ Len(metrics'.active_links_history) = Len(metrics'.timestamp)
       /\ \A i \in DOMAIN metrics'.timestamp : metrics'.timestamp[i] = i - 1
       /\ InCycle' =>
            Len(metrics'.timestamp) = IF pc' = "export" THEN hour' + 1 ELSE hour'
       /\ Extends(metrics'.hourly_energy, metrics.hourly_energy)
       /\ Extends(metrics'.active_links_history, metrics.active_links_history)
       /\ Extends(metrics'.timestamp, metrics.timestamp)
       /\ Len(metrics'.timestamp) <= Len(metrics.timestamp) + 1]_vars

\* the eighth entry has been recorded, after the export of hour 6 has
\* written its file
C17_Witness ==
    /\ pc = "export"
    /\ hour = 7
    /\ Len(metrics.timestamp) = 8
    /\ export_log = <<"exported">>
    /\ metrics.active_links_history[1] # metrics.active_links_history[8]

\* the step is the end of the tick of hour h, and its scheduled export
\* writes the file
ExportsAt(h) ==
    /\ pc = "export" /\ hour = h /\ pc' = "predict"
    /\ export_log' = Append(export_log, "exported")

\* C18 as stated: the export at cycle 6 writes a file of exactly 7 lines, the
\* header and 6 rows, each row with the active count recorded for its cycle.
C18_ExportAtSix ==
    [][ExportsAt(6) =>
          /\ Len(csv_file') = 7
          /\ csv_file'[1] = <<"Hour", "Energy_W", "Active_Links">>
          /\ \A i \in 1..6 : csv_file'[i + 1][3] = metrics.active_links_history[i]]_vars

\* C18 as amended: the tick of hour 6 is the first to export; its export
\* writes the header and the 7 entries of cycles 0..6, a file of exactly 8
\* lines, each row with the cycle index, the energy and the active count
\* recorded for that cycle.
C18_ExportAtSixSevenEntries ==
    [][/\ (pc = "export" /\ pc' = "predict" /\ hour < 6) =>
            export_log' = export_log /\ csv_file' = csv_file
       /\ (pc = "export" /\ pc' = "predict" /\ hour = 6) => export_log' # export_log
       /\ ExportsAt(6) =>
            /\ Len(metrics.timestamp) = 7
            /\ Len(csv_file') = 8
            /\ csv_file'[1] = <<"Hour", "Energy_W", "Active_Links">>
            /\ \A i \in 1..7 :
                 csv_file'[i + 1] = <<i - 1, metrics.hourly_energy[i],
                                     metrics.active_links_history[i]>>]_vars

\* the export of hour 6 has written its file, whose rows do not all have the
\* same active count
C18_Witness ==
    /\ pc = "predict"
    /\ hour = 7
    /\ export_log = <<"exported">>
    /\ Len(csv_file) = 8
    /\ csv_file[2][3] # csv_file[8][3]

\* the file that holds the header and one row for every entry of the series
CompleteFile ==
    [i \in 1..(Len(metrics.timestamp) + 1) |->
        IF i = 1 THEN <<"Hour", "Energy_W", "Active_Links">>
        ELSE <<metrics.timestamp[i - 1], metrics.hourly_energy[i - 1],
               metrics.active_links_history[i - 1]>>]

\* C19: the step that ends a tick with a scheduled export, whether the
\* export fails or not, leaves the metrics series as it is and goes on to the
\* next tick; an export that does write the file writes the whole series, so
\* the export scheduled after a failed one writes the entries the failed one
\* did not.
C19_ExportFailureNonFatal ==
    [][(pc = "export" /\ ExportDue(hour) /\ pc' # "exited") =>
          /\ pc' = "predict"
          /\ hour' = hour + 1
          /\ metrics' = metrics
          /\ export_log' # export_log
          /\ export_log'[Len(export_log')] = "exported" => csv_file' = CompleteFile]_vars

\* the export of hour 6 failed and left a partial file, the export of hour 12
\* has written all 13 entries
C19_Witness ==
    /\ pc = "predict"
    /\ hour = 13
    /\ export_log = <<"failed", "exported">>
    /\ Len(csv_file) = 14
    /\ Len(metrics.timestamp) = 13
    /\ csv_file[2][3] # csv_file[14][3]

\* C20: wherever run_simulation is (topology loop, any step of a cycle,
\* between two ticks) the interrupt can be taken; the step that takes it
\* calls export_metrics exactly once, on the series as it is, and an export
\* that writes the file writes every entry recorded so far; the process has
\* then exited and does nothing more.
C20_FinalExport ==
    [][/\ pc \notin {"exited", "fatal"} => ENABLED Interrupt
       /\ pc # "exited"
       /\ pc' = "exited" =>
            /\ metrics' = metrics
            /\ Len(export_log') = Len(export_log) + 1
            /\ SubSeq(export_log', 1, Len(export_log)) = export_log
            /\ export_log'[Len(export_log')] = "exported" => csv_file' = CompleteFile]_vars

\* the interrupt came in the middle of the cycle of hour 8, after a failed
\* scheduled export, and the final export wrote the 8 entries recorded so far
C20_Witness ==
    /\ pc = "exited"
    /\ hour = 8
    /\ 1 < idx /\ idx <= Len(link_index_to_edge)
    /\ export_log = <<"failed", "exported">>
    /\ Len(metrics.timestamp) = 8
    /\ Len(csv_file) = 9

\* C21: on the controller's topology, a link between two core switches that
\* was ACTIVE when the cycle began and whose utilization is below the
\* threshold is SLEEPING when the cycle is over, whatever the other links do.
C21_CoreMeshSleeps ==
    (link_index_to_edge = BuildTopology /\ CycleDone) =>
        \A l \in DOMAIN link_states :
            (/\ Joins(l, CoreSwitches, CoreSwitches)
             /\ ActiveAtCycleStart(l)
             /\ Util(l) < sleep_threshold) => ~Active(l)

\* the utilization of every link
Utilizations == [l \in DOMAIN link_states |-> Util(l)]

\* C22: inside the control loop a step changes a utilization only before
\* the first link of the tick is evaluated, changes a power state only while
\* links are being evaluated, and appends the metrics entry only when every
\* link has been evaluated; that entry carries the hour of the tick and the
\* number of links ACTIVE at that moment, no link changes between the entry
\* and the end of the tick, and the hour advances only from a tick that has
\* its entry.
C22_StepOrder ==
    [][InCycle =>
          /\ Utilizations' # Utilizations => (pc = "update" /\ idx = 0)
          /\ pc = "update" => (idx = 0 /\ events = <<>>)
          /\ PowerStates' # PowerStates => InLoop
          /\ metrics' # metrics =>
               /\ pc = "manage" /\ idx = Len(link_index_to_edge) + 1
               /\ metrics'.timestamp = Append(metrics.timestamp, hour)
               /\ metrics'.active_links_history =
                     Append(metrics.active_links_history, Cardinality(ActiveLinks))
               /\ link_states' = link_states
          /\ pc = "export" => link_states' = link_states
          /\ hour' # hour =>
               /\ pc = "export" /\ hour' = hour + 1
               /\ Len(metrics.timestamp) = hour + 1
               /\ idx' = 0]_vars

\* a tick whose forecast arrived has woken or slept links and recorded an
\* active count that differs from the one of the tick before
C22_Witness ==
    /\ pc = "export"
    /\ hour >= 1
    /\ fetch = "ok"
    /\ Len(events) > 0
    /\ metrics.active_links_history[hour + 1] # metrics.active_links_history[hour]
    /\ metrics.active_links_history[hour + 1] = Cardinality(ActiveLinks)

\* C23: once the topology is loaded the set of links and the map never
\* change; the step that applies a forecast changes no power state; the
\* steps of link management change no utilization; a step that appends to the
\* metrics or exports (at the end of a tick or on interrupt) changes no link.
C23_SingleWriter ==
    [][Loaded =>
          /\ DOMAIN link_states' = DOMAIN link_states
          /\ link_index_to_edge' = link_index_to_edge
          /\ pc = "update" => PowerStates' = PowerStates
          /\ pc = "manage" => Utilizations' = Utilizations
          /\ (metrics' # metrics \/ csv_file' # csv_file \/ export_log' # export_log)
                => link_states' = link_states
          /\ pc \notin {"update", "manage"} => link_states' = link_states]_vars

\* link_39 has been lifted to the threshold by a forecast and woken by link
\* management in the tick of hour 6, whose entry was then recorded and exported
C23_Witness ==
    /\ pc = "predict"
    /\ hour = 7
    /\ export_log = <<"exported">>
    /\ Util(LinkName(39)) = 10 /\ Active(LinkName(39))
    /\ csv_file[8][3] = csv_file[7][3] + 1

\* C24 as stated: the loop of _link_management evaluates the links in
\* ascending order of their identifiers' numbers.
C24_IdentifierOrder ==
    [][(InLoop /\ idx > 1) =>
          ParseInt(link_index_to_edge[idx - 1].id) < ParseInt(Current)]_vars

\* the link states the current cycle began with
CycleStartStates ==
    [l \in DOMAIN link_states |->
        [active |-> ActiveAtCycleStart(l), utilization |-> Util(l)]]

\* the position of a link in the topology answer
Position(link_id) == CHOOSE i \in DOMAIN link_index_to_edge : link_index_to_edge[i].id = link_id

\* C24 as amended: the states a cycle ends with are those that evaluating
\* the links one by one in the order of the topology answer yields from the
\* states the cycle began with (the link at position i is decided on the
\* final states of the links before it and the initial states of the others),
\* the WOKE and SLEPT lines of the cycle follow that order, and for the
\* controller's map that order is link_1, link_2, ..., link_39.
C24_TopologyOrder ==
    CycleDone =>
        LET start == CycleStartStates
            pos   == [l \in DOMAIN link_states |-> Position(l)]
            seen(i) == [l \in DOMAIN link_states |->
                           IF pos[l] < i THEN link_states[l] ELSE start[l]]
        IN /\ \A i \in DOMAIN link_index_to_edge :
                 LET id       == link_index_to_edge[i].id
                     decision == Decision(id, link_index_to_edge, seen(i))
                 IN Active(id) = IF decision = "wake" THEN TRUE
                                 ELSE IF decision = "sleep" THEN FALSE
                                 ELSE start[id].active
           /\ \A i, j \in DOMAIN events :
                 i < j => pos[events[i][2]] < pos[events[j][2]]
           /\ link_index_to_edge = BuildTopology =>
                 \A i \in DOMAIN link_index_to_edge : AllLinkIds[i] = LinkName(i)

\* on a map that lists 'link_030' after 'link_41', link_41 was woken and then
\* link_030 put to sleep; of the pair link_1, link_2 the first one sleeps
C24_Witness ==
    /\ CycleDone
    /\ link_index_to_edge = BuildTopology \o OddLinks
    /\ Len(events) >= 2
    /\ events[Len(events)][2] = <<0, 3, 0>>
    /\ Logged("SLEPT", LinkName(1))
    /\ Active(LinkName(2))

\* C25: once the topology is loaded the utilization of every link is a
\* ratio between 0.0 and 1.0, whatever the forecast entries carry.
C25_UtilizationRange ==
    Loaded => \A l \in DOMAIN link_states : 0 <= Util(l) /\ Util(l) <= 100

\* C26: from the hour the forecast service has gone away no utilization
\* changes; the cycle of the last forecast and the cycle after it may change
\* power states, and from the second cycle after the last forecast on no
\* power state changes any more.
C26_Stabilization ==
    [][/\ hour >= MaxForecastHour => Utilizations' = Utilizations
       /\ hour >= MaxForecastHour + 1 => (PowerStates' = PowerStates /\ events' = <<>>)]_vars

\* link_1 was refused in the cycle of the last forecast because link_2 was
\* asleep and woke only after it, was put to sleep in the next cycle, and the
\* cycle after that has changed nothing
C26_Witness ==
    /\ pc = "export"
    /\ hour = MaxForecastHour + 1
    /\ link_index_to_edge = BuildTopology
    /\ events = <<>>
    /\ ~Active(LinkName(1)) /\ Util(LinkName(1)) = 5
    /\ Active(LinkName(2)) /\ Util(LinkName(2)) = 10
    /\ metrics.active_links_history[hour] = metrics.active_links_history[hour - 1] - 1
    /\ metrics.active_links_history[hour + 1] = metrics.active_links_history[hour]

\* the step ends a tick and begins the next
EndOfTick == pc = "export" /\ pc' = "predict"

\* C27: the step that ends tick h calls export_metrics iff h is 6, 12, 18,
\* ...; the entry of tick h is then in the series; a step that ends any other
\* tick leaves the file alone, no other step of the loop exports, and an
\* export that writes the file writes the header and one row per entry of
\* the series, in cycle order.
C27_ExportSchedule ==
    [][/\ EndOfTick =>
            /\ export_log' # export_log <=> (hour # 0 /\ hour % 6 = 0)
            /\ export_log' # export_log =>
                 /\ Len(metrics.timestamp) = hour + 1
                 /\ metrics.timestamp[hour + 1] = hour
            /\ export_log' = export_log => csv_file' = csv_file
       /\ (~EndOfTick /\ pc' # "exited") =>
            (export_log' = export_log /\ csv_file' = csv_file)
       /\ (export_log' # export_log /\ export_log'[Len(export_log')] = "exported") =>
            /\ Len(csv_file') = Len(metrics.timestamp) + 1
            /\ csv_file' = CompleteFile
            /\ \A i \in 1..Len(metrics.timestamp) : csv_file'[i + 1][1] = i - 1]_vars

\* the ticks of hours 6 and 12 have exported, the second file holding the 13
\* entries of hours 0..12
C27_Witness ==
    /\ pc = "predict"
    /\ hour = 13
    /\ export_log = <<"exported", "exported">>
    /\ Len(csv_file) = 14
    /\ csv_file[14][1] = 12

\* no link has been given a utilization by a forecast
NoUtilization == \A l \in DOMAIN link_states : Util(l) = 0

\* C28: the loop is entered with every link ACTIVE at utilization 0, and as
\* long as no forecast has set a utilization, the iteration for an ACTIVE
\* link puts it to sleep exactly when the safety evaluator allows it, logging
\* SLEPT with utilization 0; on the controller's map the first cycle without
\* a forecast ends with 21 links asleep.
C28_PreForecastSleep ==
    /\ (pc = "predict" /\ hour = 0) =>
          (NoUtilization /\ SleepingLinks = {})
    /\ (InLoop /\ NoUtilization /\ Active(Current)) =>
          (IsSafeToSleep(Current, link_index_to_edge, link_states)
              <=> ENABLED (LinkManagementStep /\ ~link_states'[Current].active
                             /\ events' = Append(events, <<"SLEPT", Current, 0>>)))
    /\ (InLoop /\ NoUtilization /\ Active(Current)
          /\ ~IsSafeToSleep(Current, link_index_to_edge, link_states)) =>
          ENABLED (LinkManagementStep /\ link_states' = link_states)
    /\ (CycleDone /\ hour = 0 /\ NoUtilization /\ link_index_to_edge = BuildTopology) =>
          Cardinality(SleepingLinks) = 21

\* the first cycle got no forecast from the service and has put 21 links of
\* the controller's map to sleep, host link link_1 among them
C28_Witness ==
    /\ pc = "export"
    /\ hour = 0
    /\ FetchFailed
    /\ link_index_to_edge = BuildTopology
    /\ NoUtilization
    /\ Cardinality(SleepingLinks) = 21
    /\ ~Active(LinkName(1))
    /\ Logged("SLEPT", LinkName(1))
    /\ LastEntry.active = 18

\* the position of the last entry of the forecast that names the link, 0 if
\* no entry does
LastNaming(link_id) ==
    LET at == {i \in DOMAIN predictions : predictions[i].link_id = link_id}
    IN IF at = {} THEN 0 ELSE CHOOSE i \in at : \A j \in at : j <= i

\* C29: when a forecast is applied, a link whose last entry has no ratio
\* field ends with utilization 0 whatever utilization it had, its power state
\* unchanged.
C29_MissingRatioResets ==
    [][(pc = "update" /\ pc' = "manage") =>
          \A l \in DOMAIN link_states :
              (LastNaming(l) # 0 /\ predictions[LastNaming(l)].kind = "absent") =>
                  link_states'[l] = [link_states[l] EXCEPT !.utilization = 0]]_vars

\* link_39 stayed ACTIVE through the previous cycle, which it does only at a
\* utilization of 0.1 or more, and the forecast of this hour has been applied
\* and has left it at 0, which only the entry without the ratio field does
C29_Witness ==
    /\ pc = "manage"
    /\ idx = 1
    /\ hour >= 1
    /\ link_index_to_edge = BuildTopology
    /\ fetch = "ok"
    /\ Active(LinkName(39))
    /\ Util(LinkName(39)) = 0
    /\ metrics.active_links_history[hour] = 19

\* the distinct hours of the service's dataset
DatasetHours == {predictor.df[i].timestamp : i \in DOMAIN predictor.df}

\* the hour of that rank among them, rank 0 being the earliest
HourOfRank(r) == CHOOSE t \in DatasetHours : Cardinality({u \in DatasetHours : u < t}) = r

\* C30: with N distinct hours in the dataset, the k-th answer of the service
\* holds exactly the rows of the hour of rank (k - 1) mod N, in dataset
\* order, so the hours come in ascending order and start over after the
\* last; current_hour_index is the number of calls mod N and so stays in
\* 0..N-1.
C30_PredictorCycles ==
    LET N == Cardinality(DatasetHours)
    IN /\ predictor.total_hours = N
       /\ predictor.current_hour_index \in 0..(N - 1)
       /\ predictor.current_hour_index = Len(sent) % N
       /\ \A k \in DOMAIN sent :
             sent[k].predictions =
                 SelectSeq(predictor.df,
                           LAMBDA row : row.timestamp = HourOfRank((k - 1) % N))

\* a dataset of two hours whose rows are not in time order, the earlier hour
\* with two rows: the third answer repeats the first
C30_Witness ==
    /\ Cardinality(DatasetHours) = 2
    /\ Len(predictor.df) = 3
    /\ predictor.df[1].timestamp > predictor.df[2].timestamp
    /\ Len(sent) = 3
    /\ Len(sent[1].predictions) = 2
    /\ sent[1].predictions[1].timestamp < sent[2].predictions[1].timestamp
    /\ sent[3].predictions = sent[1].predictions
    /\ predictor.current_hour_index = 1

\* the state of the most recent event for the switch, "none" if there is none
LastStateOf(changes, id) ==
    LET at == {i \in DOMAIN changes : changes[i].datapath.id = id}
    IN IF at = {} THEN "none"
       ELSE changes[CHOOSE i \in at : \A j \in at : j <= i].state

\* the switch ids the dict holds
Registered == {item.id : item \in datapaths}

\* C31: after every event the dict holds a switch id exactly when the most
\* recent event for that switch was a MAIN_DISPATCHER event, and holds
\* nothing else; an event whose state is that of the previous event for the
\* same switch leaves the dict as it was.
C31_SwitchRegistry ==
    [][/\ Registered \subseteq SwitchIds /\ Registered' \subseteq SwitchIds
       /\ \A id \in SwitchIds :
             /\ id \in Registered <=> LastStateOf(state_changes, id) = "MAIN_DISPATCHER"
             /\ id \in Registered' <=> LastStateOf(state_changes', id) = "MAIN_DISPATCHER"
       /\ \A ev \in StateChanges :
             (/\ state_changes' = Append(state_changes, ev)
              /\ LastStateOf(state_changes, ev.datapath.id) = ev.state)
                 => datapaths' = datapaths]_vars

\* switch 1 connected, connected again on another connection and was then
\* reported dead: the repeated connect changed nothing, one line was logged
\* for each change of the dict, and switch 2 is still registered
C31_Witness ==
    /\ Len(state_changes) = 4
    /\ state_changes[1] = [state |-> "MAIN_DISPATCHER", datapath |-> Datapath(2, 1)]
    /\ state_changes[2] = [state |-> "MAIN_DISPATCHER", datapath |-> Datapath(1, 1)]
    /\ state_changes[3] = [state |-> "MAIN_DISPATCHER", datapath |-> Datapath(1, 2)]
    /\ state_changes[4] = [state |-> "DEAD_DISPATCHER", datapath |-> Datapath(1, 2)]
    /\ datapaths = {[id |-> 2, datapath |-> Datapath(2, 1)]}
    /\ controller_log = << <<"initialized">>, <<"connected", 2>>, <<"connected", 1>>,
                           <<"disconnected", 1>> >>

====
